---- MODULE Spec2Model ----
(***************************************************************************)
(* Model of the aquaponics sensor server (src/unnamed/part_000, the        *)
(* MongoDB-backed server with an in-memory fallback; src/server.js is the  *)
(* earlier memory-only server, whose handlers are the not-connected        *)
(* branches of the handlers modelled here).                                *)
(*                                                                         *)
(* Numbers are integers (TLC has no floats); strings are sequences of      *)
(* one-character strings so that parsing and formatting are computed.      *)
(* The fields req, input, live, dbResult, subject, source, after and prev   *)
(* are history: they record what happened and are read by no handler.      *)
(***************************************************************************)
EXTENDS Integers, Sequences, FiniteSets, TLC

\* ------------------------------------------------------------------ bounds
MaxReqs == 2
MaxCreates == 2
CapCreates == 2
CapReqs == 1
MaxTicks == 1
PreFill == 99

\* ------------------------------------------------------- program constants
MaxLocal == 100
DefaultLimit == 10
Connected == 1
Connecting == 2
Disconnected == 0
Radix == 10
ISTOffsetSeconds == 19800

\* --------------------------------------------------------------- JS values
Undefined == [t |-> "undefined", n |-> 0, s |-> <<>>]
Null == [t |-> "null", n |-> 0, s |-> <<>>]
NaN == [t |-> "NaN", n |-> 0, s |-> <<>>]
JNum(k) == [t |-> "number", n |-> k, s |-> <<>>]
JStr(chars) == [t |-> "string", n |-> 0, s |-> chars]

DigitChars == <<"0", "1", "2", "3", "4", "5", "6", "7", "8", "9">>
IsDigit(c) == \E i \in 1..Len(DigitChars) : DigitChars[i] = c
DigitVal(c) == (CHOOSE i \in 1..Len(DigitChars) : DigitChars[i] = c) - 1
IsSpace(c) == c = " "

RECURSIVE SkipSpaces(_)
SkipSpaces(cs) ==
    IF cs # <<>> /\ IsSpace(Head(cs)) THEN SkipSpaces(Tail(cs)) ELSE cs

RECURSIVE DropTrailingSpaces(_)
DropTrailingSpaces(cs) ==
    IF cs # <<>> /\ IsSpace(cs[Len(cs)])
    THEN DropTrailingSpaces(SubSeq(cs, 1, Len(cs) - 1))
    ELSE cs

\* The longest prefix of digits of cs.
RECURSIVE DigitPrefix(_)
DigitPrefix(cs) ==
    IF cs # <<>> /\ IsDigit(Head(cs))
    THEN <<Head(cs)>> \o DigitPrefix(Tail(cs))
    ELSE <<>>

RECURSIVE DigitsValue(_, _)
DigitsValue(cs, acc) ==
    IF cs = <<>> THEN acc
    ELSE DigitsValue(Tail(cs), acc * Radix + DigitVal(Head(cs)))

\* parseInt(x, 10): String(x), leading white space skipped, an optional sign,
\* then the longest run of digits; NaN when there is no digit.
parseInt(x) ==
    IF x.t # "string" THEN NaN
    ELSE LET cs == SkipSpaces(x.s)
             neg == cs # <<>> /\ Head(cs) = "-"
             signed == cs # <<>> /\ Head(cs) \in {"-", "+"}
             ds == DigitPrefix(IF signed THEN Tail(cs) ELSE cs)
         IN  IF ds = <<>> THEN NaN
             ELSE JNum(IF neg THEN 0 - DigitsValue(ds, 0) ELSE DigitsValue(ds, 0))

\* Number(x) for the values a JSON body can hold here: a number is itself; a
\* string is trimmed, "" is 0, a signed run of digits is its value and anything
\* else is NaN; null is 0 and undefined is NaN.
Number(x) ==
    CASE x.t = "number" -> x
      [] x.t = "NaN" -> NaN
      [] x.t = "null" -> JNum(0)
      [] x.t = "undefined" -> NaN
      [] x.t = "string" ->
            LET cs == DropTrailingSpaces(SkipSpaces(x.s))
                neg == cs # <<>> /\ Head(cs) = "-"
                signed == cs # <<>> /\ Head(cs) \in {"-", "+"}
                body == IF signed THEN Tail(cs) ELSE cs
            IN  IF cs = <<>> THEN JNum(0)
                ELSE IF body # <<>> /\ DigitPrefix(body) = body
                     THEN JNum(IF neg THEN 0 - DigitsValue(body, 0)
                                      ELSE DigitsValue(body, 0))
                     ELSE NaN

\* Number.prototype.toString() of a non-negative integer: its decimal digits.
RECURSIVE NumberToString(_)
NumberToString(k) ==
    IF k < Radix THEN <<DigitChars[k + 1]>>
    ELSE NumberToString(k \div Radix) \o <<DigitChars[(k % Radix) + 1]>>

\* JS truthiness of a number, as used by `parseInt(..) || 10`.
Truthy(x) == x.t = "number" /\ x.n # 0

\* JSON.stringify of a number: NaN is written as null.
JsonNumber(x) == IF x.t = "NaN" THEN Null ELSE x

\* getISTDateTime at the instant ms (milliseconds since the epoch): the wall
\* clock of Asia/Kolkata (UTC+5:30, no daylight saving) to the second, which
\* the code renders as "YYYY-MM-DD, HH:MM:SS".
getISTDateTime(ms) ==
    LET secs == (ms \div 1000) + ISTOffsetSeconds
        days == secs \div 86400
        rem == secs % 86400
        z == days + 719468
        era == z \div 146097
        doe == z - era * 146097
        yoe == (doe - doe \div 1460 + doe \div 36524 - doe \div 146096) \div 365
        doy == doe - (365 * yoe + yoe \div 4 - yoe \div 100)
        mp == (5 * doy + 2) \div 153
        d == doy - (153 * mp + 2) \div 5 + 1
        m == IF mp < 10 THEN mp + 3 ELSE mp - 9
        y == yoe + era * 400 + (IF m <= 2 THEN 1 ELSE 0)
    IN  [year |-> y, month |-> m, day |-> d,
         hour |-> rem \div 3600, minute |-> (rem % 3600) \div 60,
         second |-> rem % 60]

\* ------------------------------------------------------------------ state
VARIABLES
    localDataStore,  \* localDataStore.sensorData, newest first
    dbDocs,          \* the SensorData collection, in insertion order
    readyState,      \* mongoose.connection.readyState
    now,             \* Date.now(), in milliseconds
    oidCounter,      \* the driver's ObjectId counter
    reqs,            \* the requests in flight, one per slot
    resp,            \* the response this step sent, NoResponse if it sent none
    ticks,           \* how often the clock may still advance (bounds the model)
    budget,          \* how many creates may still be accepted (bounds the model)
    inserted,        \* history: every entry put into the local buffer, in order
    everLive,        \* history: readyState was 1 at some time
    lastWrite,       \* history: how the create answered last was served
    lastLatest       \* history: the last answer of GET /latest since the last write

vars == <<localDataStore, dbDocs, readyState, now, oidCounter, reqs, resp, ticks,
          budget, inserted, everLive, lastWrite, lastLatest>>

Slots == 1..MaxReqs

Min(a, b) == IF a < b THEN a ELSE b
Max(a, b) == IF a > b THEN a ELSE b

\* ------------------------------------------------------- the local buffer
\* Array.prototype.slice(0, end).
Slice0(arr, end) ==
    LET e == IF end < 0 THEN Max(Len(arr) + end, 0) ELSE Min(end, Len(arr))
    IN  SubSeq(arr, 1, e)

\* Mutants of LocalInsert: the cap is forgotten; the newest entry is evicted;
\* an entry of the same id is overwritten.
LocalInsertReplacesSameId(store, entry) ==
    IF \E i \in 1..Len(store) : store[i].id = entry.id
    THEN [i \in 1..Len(store) |-> IF store[i].id = entry.id THEN entry ELSE store[i]]
    ELSE Slice0(<<entry>> \o store, MaxLocal)

LocalInsertUncapped(store, entry) == <<entry>> \o store

LocalInsertEvictsNewest(store, entry) ==
    LET u == <<entry>> \o store
    IN  IF Len(u) > MaxLocal THEN SubSeq(u, 2, Len(u)) ELSE u

\* Mutant of LocalInsert: the truncation is left to the next insert, so that
\* the buffer is seen between the prepend and the truncation.
LocalInsertTruncatesLate(store, entry) == <<entry>> \o Slice0(store, MaxLocal)

\* unshift(entry), then keep the first 100.
LocalInsert(store, entry) ==
    LET u == <<entry>> \o store
    IN  IF Len(u) > MaxLocal THEN Slice0(u, MaxLocal) ELSE u

\* ------------------------------------------------------------ the request
\* The presence check of POST /api/sensor-data.
MissingField(v) == v.t = "undefined" \/ v.t = "null"

\* Mutant of MissingRequired: only the first field is checked.
MissingRequiredFirstOnly(body) == MissingField(body.waterLevel)

MissingRequired(body) ==
    \/ MissingField(body.waterLevel)
    \/ MissingField(body.temperatureCelsius)
    \/ MissingField(body.temperatureFahrenheit)

\* Mutant of Stamp: the Fahrenheit value is derived from the Celsius value.
StampDerivesFahrenheit(body, ms, tag) ==
    LET c == Number(body.temperatureCelsius)
    IN  [waterLevel |-> Number(body.waterLevel),
         temperatureCelsius |-> c,
         temperatureFahrenheit |->
             IF c.t = "number" THEN JNum((c.n * 9) \div 5 + 32) ELSE NaN,
         timestamp |-> getISTDateTime(ms),
         id |-> NumberToString(ms),
         req |-> tag]

\* const entry = {...}: the reading stamped at the instant ms.
Stamp(body, ms, tag) ==
    [waterLevel |-> Number(body.waterLevel),
     temperatureCelsius |-> Number(body.temperatureCelsius),
     temperatureFahrenheit |-> Number(body.temperatureFahrenheit),
     timestamp |-> getISTDateTime(ms),
     id |-> NumberToString(ms),
     req |-> tag]

\* A reading as res.json writes it.
Wire(r) ==
    [waterLevel |-> JsonNumber(r.waterLevel),
     temperatureCelsius |-> JsonNumber(r.temperatureCelsius),
     temperatureFahrenheit |-> JsonNumber(r.temperatureFahrenheit),
     timestamp |-> r.timestamp,
     id |-> r.id]

isDbConnected(state) == state = Connected

\* ------------------------------------------------------ the durable store
\* ObjectId.prototype.toString(): the hex string of the id; the leading "#"
\* stands for the timestamp and process bytes, the digits are the counter.
ObjectIdToString(oid) == <<"#">> \o NumberToString(oid)

\* The document SensorData.create builds: the four fields passed, the _id of
\* the driver and createdAt of the schema's timestamps option.
NewDoc(entry, oid, ms) ==
    [waterLevel |-> entry.waterLevel,
     temperatureCelsius |-> entry.temperatureCelsius,
     temperatureFahrenheit |-> entry.temperatureFahrenheit,
     istTimestamp |-> entry.timestamp,
     _id |-> oid,
     createdAt |-> ms,
     req |-> entry.req]

\* The schema's fields are of type Number, required: NaN fails the cast.
SchemaValid(doc) ==
    /\ doc.waterLevel.t = "number"
    /\ doc.temperatureCelsius.t = "number"
    /\ doc.temperatureFahrenheit.t = "number"

\* The {waterLevel, ..., timestamp, id} object the handlers build from a doc.
DocToReading(doc) ==
    [waterLevel |-> doc.waterLevel,
     temperatureCelsius |-> doc.temperatureCelsius,
     temperatureFahrenheit |-> doc.temperatureFahrenheit,
     timestamp |-> doc.istTimestamp,
     id |-> ObjectIdToString(doc._id)]

\* Mutant of SortedByCreatedAtDesc: the sort is forgotten.
Unsorted(docs) ==
    LET n == Len(docs)
        perms == {p \in [1..n -> 1..n] : \A i, j \in 1..n : i # j => p[i] # p[j]}
    IN  {[i \in 1..n |-> docs[p[i]]] : p \in perms}

\* The orders sort({createdAt: -1}) can return the collection in: documents
\* of equal createdAt come in an order the store does not specify.
SortedByCreatedAtDesc(docs) ==
    LET n == Len(docs)
        perms == {p \in [1..n -> 1..n] : \A i, j \in 1..n : i # j => p[i] # p[j]}
    IN  {[i \in 1..n |-> docs[p[i]]] : p \in
            {q \in perms : \A i \in 1..n : \A j \in 1..n :
                i < j => docs[q[i]].createdAt >= docs[q[j]].createdAt}}

\* cursor.limit(k): a negative k is a limit of -k.
QueryLimit(k) == IF k < 0 THEN 0 - k ELSE k

\* ----------------------------------------------------------- the handlers
\* What a handler sends, and the local buffer it leaves.
Result(store, status, body, source) ==
    [store |-> store, status |-> status, body |-> body, source |-> source]

WireAll(rs) == [i \in 1..Len(rs) |-> Wire(rs[i])]
DocsToReadings(docs) == [i \in 1..Len(docs) |-> DocToReading(docs[i])]

\* POST /api/sensor-data, "Fallback: store locally".
PostFallback(store, entry) ==
    Result(LocalInsert(store, entry), 200, <<Wire(entry)>>, "local")

\* POST /api/sensor-data after SensorData.create resolved with doc.
PostStored(store, doc) ==
    Result(store, 200, <<Wire(DocToReading(doc))>>, "db")

\* Mutant of PostAfterCreate: the catch answers without storing the entry.
PostAfterCreateDrops(store, entry, doc, settled) ==
    IF settled = "resolved" THEN PostStored(store, doc)
    ELSE Result(store, 200, <<Wire(entry)>>, "local")

\* POST /api/sensor-data from the await on: settled is "resolved" or "rejected".
PostAfterCreate(store, entry, doc, settled) ==
    IF settled = "resolved" THEN PostStored(store, doc)
    ELSE PostFallback(store, entry)

\* const limit = parseInt(req.query.limit, 10) || 10
EffectiveLimit(q) ==
    LET p == parseInt(q) IN IF Truthy(p) THEN p.n ELSE DefaultLimit

\* Mutants of ListLocal: the slice ends one entry early; the limit is ignored.
ListLocalIgnoresLimit(store, limit) ==
    Result(store, 200, WireAll(store), "local")

ListLocalShort(store, limit) ==
    Result(store, 200, WireAll(Slice0(store, limit - 1)), "local")

\* GET /api/sensor-data, "Fallback to local store".
ListLocal(store, limit) ==
    Result(store, 200, WireAll(Slice0(store, limit)), "local")

\* Mutant of ListAfterFind: the catch answers with the error.
ListAfterFindFails(store, limit, docs, settled) ==
    IF settled = "resolved"
    THEN Result(store, 200, WireAll(DocsToReadings(docs)), "db")
    ELSE Result(store, 500, <<>>, "none")

\* Mutant of ListAfterFind: an empty result falls through to the local buffer.
ListAfterFindFallsOnEmpty(store, limit, docs, settled) ==
    IF settled = "resolved" /\ docs # <<>>
    THEN Result(store, 200, WireAll(DocsToReadings(docs)), "db")
    ELSE Result(store, 200, WireAll(Slice0(store, limit)), "local")

\* GET /api/sensor-data from the await on.
ListAfterFind(store, limit, docs, settled) ==
    IF settled = "resolved"
    THEN Result(store, 200, WireAll(DocsToReadings(docs)), "db")
    ELSE ListLocal(store, limit)

\* Mutants of LatestLocal: a buffer of one entry counts as empty; the oldest
\* entry is returned.
LatestLocalOffByOne(store) ==
    IF Len(store) > 1
    THEN Result(store, 200, <<Wire(store[1])>>, "local")
    ELSE Result(store, 404, <<>>, "local")

LatestLocalOldest(store) ==
    IF Len(store) > 0
    THEN Result(store, 200, <<Wire(store[Len(store)])>>, "local")
    ELSE Result(store, 404, <<>>, "local")

\* GET /api/sensor-data/latest, the part after the durable branch.
LatestLocal(store) ==
    IF Len(store) > 0
    THEN Result(store, 200, <<Wire(store[1])>>, "local")
    ELSE Result(store, 404, <<>>, "local")

\* Mutant of LatestAfterFindOne: the local buffer is preferred when it has data.
LatestAfterFindOnePrefersLocal(store, found, settled) ==
    IF Len(store) > 0 \/ settled # "resolved" \/ found = <<>>
    THEN LatestLocal(store)
    ELSE Result(store, 200, <<Wire(DocToReading(found[1]))>>, "db")

\* GET /api/sensor-data/latest from the await on: found holds the document of
\* findOne, or nothing when it resolved with null.
LatestAfterFindOne(store, found, settled) ==
    IF settled = "resolved" /\ found # <<>>
    THEN Result(store, 200, <<Wire(DocToReading(found[1]))>>, "db")
    ELSE LatestLocal(store)

\* ------------------------------------------------------------------ inputs
Body(wl, tc, tf) ==
    [waterLevel |-> wl, temperatureCelsius |-> tc, temperatureFahrenheit |-> tf]

\* Request bodies: numbers (zero and negative among them), a numeric string
\* beside a string that is no number, an absent field and a null field.
Bodies ==
    {Body(JNum(0), JNum(0 - 1), JNum(2)),
     Body(JStr(<<"7">>), JNum(0 - 1), JStr(<<"x">>)),
     Body(JNum(0), Undefined, JNum(2)),
     Body(JNum(0), JNum(0 - 1), Null)}

\* req.query.limit: absent, or a string. The count of local inserts so far is
\* among the strings, so that list(N) after N creates is a request.
QueryLimits ==
    {Undefined, JStr(<<"1">>), JStr(<<"0">>), JStr(<<"-", "1">>),
     JStr(<<"a", "b", "c">>), JStr(NumberToString(Len(inserted)))}

TickSteps == {1000}

\* ---------------------------------------------------------------- requests
Idle == [pc |-> "idle", input |-> <<>>, entry |-> <<>>, doc |-> <<>>, limit |-> 0]

\* How many writes the two backends have taken.
Epoch == Len(dbDocs) + Len(inserted)

\* What is remembered of an answer of GET /latest.
Summary(r) == [status |-> r.status, body |-> r.body, source |-> r.source]

\* The response of a handler that ended with res, and its history: the
\* request's input, isDbConnected() at the handler's start, how the durable
\* call ended ("none" when none was made), the entry or documents concerned,
\* how the last create before was served and, for GET /latest, its last answer
\* since the last write.
Response(op, res, input, live, dbResult, subject) ==
    [op |-> op, status |-> res.status, body |-> res.body, source |-> res.source,
     input |-> input, live |-> live, dbResult |-> dbResult, subject |-> subject,
     after |-> lastWrite,
     prev |-> IF op = "latest" THEN lastLatest ELSE <<>>]

NoResponse ==
    [op |-> "none", status |-> 0, body |-> <<>>, source |-> "none",
     input |-> <<>>, live |-> FALSE, dbResult |-> "none", subject |-> <<>>,
     after |-> "none", prev |-> <<>>]

\* res.status(..).json(..) of a create.
SendCreate(r) ==
    /\ resp' = r
    /\ lastWrite' = IF r.status # 200 THEN lastWrite
                    ELSE IF r.source = "db" THEN "db"
                    ELSE IF r.live THEN "fallback" ELSE "local"
    /\ lastLatest' = IF r.status = 200 THEN <<>> ELSE lastLatest

\* res.status(..).json(..) of a list or of a latest.
SendRead(r) ==
    /\ resp' = r
    /\ lastLatest' = IF r.op = "latest" THEN <<Summary(r)>> ELSE lastLatest
    /\ UNCHANGED lastWrite

\* The step sends nothing.
SendNothing ==
    /\ resp' = NoResponse
    /\ UNCHANGED <<lastWrite, lastLatest>>

\* The local buffer becomes what the handler left; the history records the
\* entry of a create that took the local branch.
Store(res, entry) ==
    /\ localDataStore' = res.store
    /\ inserted' = IF res.source = "local" THEN Append(inserted, entry) ELSE inserted

\* ----------------------------------------------------------------- actions
\* A durable call settles and the handler resumes in the same turn of the event
\* loop; the durable store takes effect at the moment it answers.

\* POST /api/sensor-data up to its response or its await.
PostSensorData(r, body) ==
    /\ reqs[r].pc = "idle"
    /\ IF MissingRequired(body)
       THEN /\ SendCreate(Response("create", Result(localDataStore, 400, <<>>, "none"),
                                   <<body>>, isDbConnected(readyState), "none", <<>>))
            /\ UNCHANGED <<localDataStore, dbDocs, readyState, now, oidCounter, reqs,
                           ticks, budget, inserted, everLive>>
       ELSE /\ budget > 0
            /\ budget' = budget - 1
            /\ LET entry == Stamp(body, now, budget) IN
                 IF isDbConnected(readyState)
                 THEN /\ reqs' = [reqs EXCEPT ![r] =
                                    [Idle EXCEPT !.pc = "awaitCreate",
                                                 !.input = <<body>>,
                                                 !.entry = <<entry>>,
                                                 !.doc = <<NewDoc(entry, oidCounter, now)>>]]
                      /\ oidCounter' = oidCounter + 1
                      /\ SendNothing
                      /\ UNCHANGED <<localDataStore, dbDocs, readyState, now, ticks,
                                     inserted, everLive>>
                 ELSE LET res == PostFallback(localDataStore, entry) IN
                      /\ Store(res, entry)
                      /\ SendCreate(Response("create", res, <<body>>, FALSE, "none",
                                             <<entry>>))
                      /\ UNCHANGED <<dbDocs, readyState, now, oidCounter, reqs, ticks,
                                     everLive>>

\* SensorData.create resolves: the document is in the collection, and the
\* handler answers with it.
PostCreateResolved(r) ==
    /\ reqs[r].pc = "awaitCreate"
    /\ readyState = Connected
    /\ SchemaValid(reqs[r].doc[1])
    /\ dbDocs' = Append(dbDocs, reqs[r].doc[1])
    /\ LET entry == reqs[r].entry[1]
           res == PostAfterCreate(localDataStore, entry, reqs[r].doc[1], "resolved")
       IN  /\ Store(res, entry)
           /\ SendCreate(Response("create", res, reqs[r].input, TRUE, "ok", <<entry>>))
    /\ reqs' = [reqs EXCEPT ![r] = Idle]
    /\ UNCHANGED <<readyState, now, oidCounter, ticks, budget, everLive>>

\* SensorData.create rejects (validation, write or connection error): nothing
\* is written, and the handler goes on in its catch.
PostCreateRejected(r) ==
    /\ reqs[r].pc = "awaitCreate"
    /\ LET entry == reqs[r].entry[1]
           res == PostAfterCreate(localDataStore, entry, reqs[r].doc[1], "rejected")
       IN  /\ Store(res, entry)
           /\ SendCreate(Response("create", res, reqs[r].input, TRUE, "fail", <<entry>>))
    /\ reqs' = [reqs EXCEPT ![r] = Idle]
    /\ UNCHANGED <<dbDocs, readyState, now, oidCounter, ticks, budget, everLive>>

\* GET /api/sensor-data up to its response or its await.
GetSensorData(r, q) ==
    /\ reqs[r].pc = "idle"
    /\ LET limit == EffectiveLimit(q) IN
         IF isDbConnected(readyState)
         THEN /\ reqs' = [reqs EXCEPT ![r] =
                            [Idle EXCEPT !.pc = "awaitFind", !.input = <<q>>,
                                         !.limit = limit]]
              /\ SendNothing
         ELSE /\ SendRead(Response("list", ListLocal(localDataStore, limit), <<q>>,
                                   FALSE, "none", <<>>))
              /\ UNCHANGED reqs
    /\ UNCHANGED <<localDataStore, dbDocs, readyState, now, oidCounter, ticks, budget,
                   inserted, everLive>>

\* find().sort({createdAt: -1}).limit(limit).lean() resolves.
GetFindResolved(r) ==
    /\ reqs[r].pc = "awaitFind"
    /\ readyState = Connected
    /\ \E order \in SortedByCreatedAtDesc(dbDocs) :
          LET docs == SubSeq(order, 1, Min(QueryLimit(reqs[r].limit), Len(order)))
          IN  SendRead(Response("list",
                                ListAfterFind(localDataStore, reqs[r].limit, docs,
                                              "resolved"),
                                reqs[r].input, TRUE, "ok", docs))
    /\ reqs' = [reqs EXCEPT ![r] = Idle]
    /\ UNCHANGED <<localDataStore, dbDocs, readyState, now, oidCounter, ticks, budget,
                   inserted, everLive>>

\* The query rejects, and the handler goes on in its catch.
GetFindRejected(r) ==
    /\ reqs[r].pc = "awaitFind"
    /\ SendRead(Response("list",
                         ListAfterFind(localDataStore, reqs[r].limit, <<>>, "rejected"),
                         reqs[r].input, TRUE, "fail", <<>>))
    /\ reqs' = [reqs EXCEPT ![r] = Idle]
    /\ UNCHANGED <<localDataStore, dbDocs, readyState, now, oidCounter, ticks, budget,
                   inserted, everLive>>

\* GET /api/sensor-data/latest up to its response or its await.
GetLatest(r) ==
    /\ reqs[r].pc = "idle"
    /\ IF isDbConnected(readyState)
       THEN /\ reqs' = [reqs EXCEPT ![r] = [Idle EXCEPT !.pc = "awaitFindOne"]]
            /\ SendNothing
       ELSE /\ SendRead(Response("latest", LatestLocal(localDataStore), <<>>, FALSE,
                                 "none", <<>>))
            /\ UNCHANGED reqs
    /\ UNCHANGED <<localDataStore, dbDocs, readyState, now, oidCounter, ticks, budget,
                   inserted, everLive>>

\* findOne().sort({createdAt: -1}).lean() resolves, with a document or null.
LatestFindOneResolved(r) ==
    /\ reqs[r].pc = "awaitFindOne"
    /\ readyState = Connected
    /\ \E order \in SortedByCreatedAtDesc(dbDocs) :
          LET found == SubSeq(order, 1, Min(1, Len(order)))
          IN  SendRead(Response("latest",
                                LatestAfterFindOne(localDataStore, found, "resolved"),
                                <<>>, TRUE, IF found = <<>> THEN "empty" ELSE "ok",
                                found))
    /\ reqs' = [reqs EXCEPT ![r] = Idle]
    /\ UNCHANGED <<localDataStore, dbDocs, readyState, now, oidCounter, ticks, budget,
                   inserted, everLive>>

\* Mutant of LatestFindOneRejected: the rejection is not handled and the
\* request stays without an answer.
LatestFindOneRejectedHangs(r) ==
    /\ reqs[r].pc = "awaitFindOne"
    /\ UNCHANGED vars

\* The query rejects, and the handler goes on in its catch.
LatestFindOneRejected(r) ==
    /\ reqs[r].pc = "awaitFindOne"
    /\ SendRead(Response("latest", LatestAfterFindOne(localDataStore, <<>>, "rejected"),
                         <<>>, TRUE, "fail", <<>>))
    /\ reqs' = [reqs EXCEPT ![r] = Idle]
    /\ UNCHANGED <<localDataStore, dbDocs, readyState, now, oidCounter, ticks, budget,
                   inserted, everLive>>

\* The clock advances.
Tick(d) ==
    /\ ticks > 0
    /\ now' = now + d
    /\ ticks' = ticks - 1
    /\ SendNothing
    /\ UNCHANGED <<localDataStore, dbDocs, readyState, oidCounter, reqs, budget,
                   inserted, everLive>>

\* Mutant of ConnectionEvent: on connecting, the entries of the local buffer
\* are written to the collection.
ConnectionEventBackfills(to) ==
    /\ \/ readyState = Connecting /\ to \in {Connected, Disconnected}
       \/ readyState = Connected /\ to = Disconnected
       \/ readyState = Disconnected /\ to = Connected
    /\ readyState' = to
    /\ everLive' = (everLive \/ to = Connected)
    /\ dbDocs' = IF to = Connected
                 THEN dbDocs \o [i \in 1..Len(localDataStore) |->
                                   NewDoc(localDataStore[i], oidCounter + i, now)]
                 ELSE dbDocs
    /\ SendNothing
    /\ UNCHANGED <<localDataStore, now, oidCounter, reqs, ticks, budget, inserted>>

\* The connection's life cycle: mongoose.connect succeeds or fails, the
\* connection is lost, the driver reconnects.
ConnectionEvent(to) ==
    /\ \/ readyState = Connecting /\ to \in {Connected, Disconnected}
       \/ readyState = Connected /\ to = Disconnected
       \/ readyState = Disconnected /\ to = Connected
    /\ readyState' = to
    /\ everLive' = (everLive \/ to = Connected)
    /\ SendNothing
    /\ UNCHANGED <<localDataStore, dbDocs, now, oidCounter, reqs, ticks, budget,
                   inserted>>

\* ------------------------------------------------------------ initial state
\* Create i of a run of creates on a server whose connection is still being
\* set up: it comes at instant i.
FillBody(i) == Body(JNum(i), JNum(0 - i), JNum(i % 2))

FillEntry(i) == Stamp(FillBody(i), i, 0)

\* The local buffer after creates lo..hi on the buffer store (the run is split
\* in halves to keep the evaluation shallow).
RECURSIVE FillRange(_, _, _)
FillRange(store, lo, hi) ==
    IF lo > hi \/ Len(store) > MaxLocal THEN store
    ELSE IF lo = hi THEN LocalInsert(store, FillEntry(lo))
    ELSE LET mid == (lo + hi) \div 2
         IN  FillRange(FillRange(store, lo, mid), mid + 1, hi)

FillRun(k) == FillRange(<<>>, 1, k)

Constructed ==
    /\ dbDocs = <<>>
    /\ readyState = Connecting
    /\ ticks = MaxTicks
    /\ oidCounter = 1
    /\ reqs = [r \in Slots |-> Idle]
    /\ resp = NoResponse
    /\ everLive = FALSE
    /\ lastWrite = "none"
    /\ lastLatest = <<>>

\* The state after construction.
Init ==
    /\ localDataStore = <<>>
    /\ inserted = <<>>
    /\ now = 0
    /\ budget = MaxCreates
    /\ Constructed

\* The state PreFill creates later, none of them stored durably.
InitCap ==
    /\ localDataStore = FillRun(PreFill)
    /\ inserted = [i \in 1..PreFill |-> FillEntry(i)]
    /\ now = PreFill
    /\ budget = CapCreates
    /\ Constructed

\* One step of the server with the requests of the slots S.
Step(S) ==
    \/ \E r \in S : \E body \in Bodies : PostSensorData(r, body)
    \/ \E r \in S : PostCreateResolved(r)
    \/ \E r \in S : PostCreateRejected(r)
    \/ \E r \in S : \E q \in QueryLimits : GetSensorData(r, q)
    \/ \E r \in S : GetFindResolved(r)
    \/ \E r \in S : GetFindRejected(r)
    \/ \E r \in S : GetLatest(r)
    \/ \E r \in S : LatestFindOneResolved(r)
    \/ \E r \in S : LatestFindOneRejected(r)
    \/ \E d \in TickSteps : Tick(d)
    \/ \E to \in {Connected, Disconnected} : ConnectionEvent(to)

Next == Step(Slots)

\* Requests one at a time.
NextCap == Step(1..CapReqs)

\* Overlapping requests with fewer inputs: one accepted and one rejected
\* body, the default limit and the limit N.
RaceBodies ==
    {Body(JNum(0), JNum(0 - 1), JNum(2)), Body(JNum(0), Undefined, JNum(2))}

RaceLimits == {Undefined, JStr(NumberToString(Len(inserted)))}

NextRace ==
    \/ \E r \in Slots : \E body \in RaceBodies : PostSensorData(r, body)
    \/ \E r \in Slots : PostCreateResolved(r)
    \/ \E r \in Slots : PostCreateRejected(r)
    \/ \E r \in Slots : \E q \in RaceLimits : GetSensorData(r, q)
    \/ \E r \in Slots : GetFindResolved(r)
    \/ \E r \in Slots : GetFindRejected(r)
    \/ \E r \in Slots : GetLatest(r)
    \/ \E r \in Slots : LatestFindOneResolved(r)
    \/ \E r \in Slots : LatestFindOneRejected(r)
    \/ \E d \in TickSteps : Tick(d)
    \/ \E to \in {Connected, Disconnected} : ConnectionEvent(to)

Spec == Init /\ [][Next]_vars
SpecRace == InitCap /\ [][NextRace]_vars

\* Every durable call a request of the slots S awaits settles in the end: the
\* driver resolves the promise or rejects it (at the latest by its timeout).
DurableCallsSettle(S) ==
    \A r \in S :
        /\ WF_vars(PostCreateResolved(r) \/ PostCreateRejected(r))
        /\ WF_vars(GetFindResolved(r) \/ GetFindRejected(r))
        /\ WF_vars(LatestFindOneResolved(r) \/ LatestFindOneRejected(r))

SpecLive == Init /\ [][NextRace]_vars /\ DurableCallsSettle(Slots)
SpecCap == InitCap /\ [][NextCap]_vars

\* ------------------------------------------------------------------ claims
Reverse(seq) == [i \in 1..Len(seq) |-> seq[Len(seq) + 1 - i]]

\* How many of the readings of seq come from the create tagged tag.
CountReq(seq, tag) == Cardinality({i \in 1..Len(seq) : seq[i].req = tag})

Triple(r) == <<r.waterLevel, r.temperatureCelsius, r.temperatureFahrenheit>>

\* C1: in every reachable state the local buffer holds at most 100 readings.
C1_BufferAtMostCap == Len(localDataStore) <= MaxLocal

\* The buffer is full and an entry has been evicted.
C1_Witness ==
    /\ Len(localDataStore) = MaxLocal
    /\ Len(inserted) > MaxLocal
    /\ budget < CapCreates

\* C2: after k inserts the local buffer is exactly the last min(k, 100) inserted
\* readings, the most recently inserted first.
C2_BufferIsNewestFirstSuffix ==
    LET k == Len(inserted)
        m == Min(k, MaxLocal)
    IN  /\ Len(localDataStore) = m
        /\ \A i \in 1..m : localDataStore[i] = inserted[k + 1 - i]

\* After 101 inserts the first inserted reading is gone and the other 100 remain.
C2_Witness ==
    /\ Len(inserted) = MaxLocal + 1
    /\ budget < CapCreates
    /\ \A i \in 1..Len(localDataStore) : localDataStore[i] # inserted[1]
    /\ localDataStore = Reverse(Tail(inserted))

\* C3: an accepted create stores its reading exactly once, in the durable store
\* if the store was live at the check and the durable create succeeded, and
\* otherwise in the local buffer as the entry stamped before the attempt; no
\* create is ever in both backends.
C3_ExactlyOneBackend ==
    /\ \A tag \in 1..MaxCreates :
          CountReq(localDataStore, tag) + CountReq(dbDocs, tag) <= 1
    /\ (resp.op = "create" /\ resp.status = 200) =>
          LET entry == resp.subject[1]
              inLocal == CountReq(localDataStore, entry.req)
              inDb == CountReq(dbDocs, entry.req)
          IN  IF resp.live /\ resp.dbResult = "ok"
              THEN /\ inDb = 1 /\ inLocal = 0
                   /\ resp.source = "db"
                   /\ dbDocs[Len(dbDocs)].istTimestamp = entry.timestamp
              ELSE /\ inDb = 0 /\ inLocal = 1
                   /\ resp.source = "local"
                   /\ localDataStore[1] = entry
                   /\ resp.body = <<Wire(entry)>>

\* A create that passed the liveness check, failed in the durable store after
\* the clock had moved on, and was stored locally.
C3_Witness ==
    /\ resp.op = "create" /\ resp.status = 200
    /\ resp.live /\ resp.dbResult = "fail"
    /\ resp.subject[1].id # NumberToString(now)
    /\ CountReq(localDataStore, resp.subject[1].req) = 1

\* One of the three fields of the body is absent or null.
AnyAbsent(body) ==
    \E f \in {"waterLevel", "temperatureCelsius", "temperatureFahrenheit"} :
        body[f].t \in {"undefined", "null"}

\* C4: no failure of the durable store reaches the client: a create with all
\* three fields present is answered 200, a list 200, a latest 200 or 404.
C4_NoDurableFailureSurfaces ==
    /\ (resp.op = "create" /\ ~AnyAbsent(resp.input[1])) => resp.status = 200
    /\ resp.op = "list" => resp.status = 200
    /\ resp.op = "latest" => resp.status \in {200, 404}

\* A list whose durable query failed after the liveness check had passed and
\* the connection was lost.
C4_Witness ==
    /\ resp.op = "list" /\ resp.live /\ resp.dbResult = "fail"
    /\ readyState # Connected
    /\ resp.status = 200

\* C5: a create with a missing or null field is answered 400 and changes neither
\* the local buffer nor the durable store.
C5_MissingFieldRejected ==
    [][(resp'.op = "create" /\ AnyAbsent(resp'.input[1]))
        => (resp'.status = 400 /\ localDataStore' = localDataStore
            /\ dbDocs' = dbDocs /\ reqs' = reqs)]_vars

\* A create without temperatureCelsius rejected while the store is live and
\* both backends hold readings.
C5_Witness ==
    /\ resp.op = "create" /\ resp.status = 400
    /\ resp.input[1].temperatureCelsius = Undefined
    /\ resp.live
    /\ Len(localDataStore) > 0 /\ Len(dbDocs) > 0

\* The request is list(N) with N the number of creates so far, on a server
\* whose durable store has never been live.
ListOfAllWhileDown ==
    /\ resp.op = "list"
    /\ ~everLive
    /\ resp.input = <<JStr(NumberToString(Len(inserted)))>>

\* C6 as stated: with the durable store unreachable for the whole session, N
\* creates followed by list(N) return exactly those N readings in reverse
\* creation order, for every N.
C6_ListReturnsAllCreates ==
    ListOfAllWhileDown =>
        /\ resp.source = "local"
        /\ resp.body = WireAll(Reverse(inserted))

\* C6 amended: for N <= 100 list(N) returns exactly the N readings in reverse
\* creation order from the local buffer; for N > 100 it returns the 100 most
\* recent ones in that order.
C6_ListReturnsNewestHundred ==
    ListOfAllWhileDown =>
        /\ resp.source = "local"
        /\ resp.status = 200
        /\ resp.body = WireAll(SubSeq(Reverse(inserted), 1,
                                       Min(Len(inserted), MaxLocal)))

\* list(100) after exactly 100 creates returns all 100.
C6_Witness ==
    /\ ListOfAllWhileDown
    /\ budget < CapCreates
    /\ Len(inserted) = MaxLocal
    /\ Len(resp.body) = MaxLocal
    /\ resp.body[1] = Wire(inserted[MaxLocal])

\* The newest documents of the collection by createdAt.
Newest(docs) ==
    {i \in 1..Len(docs) : \A j \in 1..Len(docs) : docs[i].createdAt >= docs[j].createdAt}

\* C7: a latest whose liveness check passed and whose query yielded a reading
\* answers with that durable reading, a newest one of the collection, whatever
\* the local buffer holds; the head of the local buffer is returned only when
\* the store is not live, its query fails or its query yields nothing.
C7_LatestPrefersDurable ==
    resp.op = "latest" =>
        /\ (resp.live /\ resp.dbResult = "ok") =>
              /\ resp.status = 200
              /\ resp.source = "db"
              /\ resp.body = <<Wire(DocToReading(resp.subject[1]))>>
              /\ \E i \in Newest(dbDocs) : dbDocs[i] = resp.subject[1]
        /\ (resp.source = "local" /\ resp.status = 200) =>
              /\ ~resp.live \/ resp.dbResult \in {"fail", "empty"}
              /\ resp.body = <<Wire(localDataStore[1])>>

\* The durable reading is returned although the local buffer holds a reading
\* that was created later.
C7_Witness ==
    /\ resp.op = "latest" /\ resp.live /\ resp.dbResult = "ok"
    /\ Len(localDataStore) > 0
    /\ resp.after \in {"local", "fallback"}
    /\ resp.body # <<Wire(localDataStore[1])>>

\* C8: a latest is answered 404 if and only if the local buffer is empty and
\* the durable store gives no reading; otherwise it is answered 200 with one
\* reading.
C8_Latest404IffNoData ==
    resp.op = "latest" =>
        /\ resp.status = 404 <=>
              (Len(localDataStore) = 0 /\ ~(resp.live /\ resp.dbResult = "ok"))
        /\ resp.status # 404 => (resp.status = 200 /\ Len(resp.body) = 1)

\* 404 from a live durable store that is empty, the local buffer being empty.
C8_Witness ==
    /\ resp.op = "latest" /\ resp.status = 404
    /\ resp.live /\ resp.dbResult = "empty"

\* C9: with the durable store down, a latest that follows an accepted create
\* with no create in between returns the three values of that create.
C9_LatestAfterCreateWhileDown ==
    (resp.op = "latest" /\ ~resp.live /\ resp.after = "local") =>
        /\ resp.status = 200
        /\ Len(resp.body) = 1
        /\ Triple(resp.body[1]) = Triple(Wire(inserted[Len(inserted)]))

\* The latest follows the second of two creates of different values made
\* while the store was down.
C9_Witness ==
    /\ resp.op = "latest" /\ ~resp.live /\ resp.after = "local"
    /\ Len(localDataStore) >= 2
    /\ Triple(localDataStore[1]) # Triple(localDataStore[2])

\* C10 as stated: repeated latest requests with no create between them return
\* identical data, whatever happens to the liveness between the calls.
C10_RepeatedLatestIdentical ==
    (resp.op = "latest" /\ resp.prev # <<>>) =>
        /\ resp.status = resp.prev[1].status
        /\ resp.body = resp.prev[1].body

\* C10 amended: repeated latest requests with no create between them return
\* identical data when both are answered from the local buffer, or both from
\* the durable store and one document is its newest by createdAt.
C10_RepeatedLatestSameBackend ==
    (/\ resp.op = "latest" /\ resp.prev # <<>>
     /\ resp.source = resp.prev[1].source
     /\ resp.source = "db" => Cardinality(Newest(dbDocs)) = 1) =>
        /\ resp.status = resp.prev[1].status
        /\ resp.body = resp.prev[1].body

\* Two answers from the local buffer with no create between them, the second
\* after a liveness check that passed and a query that failed, while the
\* durable store holds a document.
C10_Witness ==
    /\ resp.op = "latest" /\ resp.prev # <<>>
    /\ resp.source = "local" /\ resp.prev[1].source = "local"
    /\ resp.live /\ resp.dbResult = "fail"
    /\ Len(dbDocs) > 0 /\ Len(localDataStore) > 0
    /\ resp.status = 200

\* The limit the interface promises for the query value q: the integer q
\* holds when it is positive, and 10 otherwise.
PromisedLimit(q) ==
    LET p == parseInt(q)
    IN  IF p.t = "number" /\ p.n > 0 THEN p.n ELSE DefaultLimit

\* C11: the effective limit is 10 when the supplied limit is absent,
\* non-numeric, zero or negative, and the supplied integer when it is positive:
\* a list served from the local buffer returns the first min(limit, size)
\* entries of the buffer, so the first min(10, size) when the limit is <= 0.
C11_EffectiveLimitDefaultsToTen ==
    (resp.op = "list" /\ resp.source = "local") =>
        resp.body = WireAll(SubSeq(localDataStore, 1,
                                   Min(PromisedLimit(resp.input[1]),
                                       Len(localDataStore))))

\* The query value q holds a positive integer.
PositiveLimit(q) == parseInt(q).t = "number" /\ parseInt(q).n > 0

\* C12: a list with positive limit L served from the local buffer is answered
\* 200 with exactly the first min(L, size) entries of the buffer in buffer
\* order, the empty sequence when the buffer is empty, and never more than L
\* readings.
C12_PositiveLimitFromLocal ==
    (resp.op = "list" /\ resp.source = "local" /\ PositiveLimit(resp.input[1])) =>
        LET L == parseInt(resp.input[1]).n
        IN  /\ resp.status = 200
            /\ resp.body = WireAll(SubSeq(localDataStore, 1,
                                          Min(L, Len(localDataStore))))
            /\ Len(resp.body) <= L
            /\ localDataStore = <<>> => resp.body = <<>>

\* list(1) on a buffer of two different readings returns the newer one alone.
C12_Witness ==
    /\ resp.op = "list" /\ resp.source = "local"
    /\ resp.input = <<JStr(<<"1">>)>>
    /\ Len(localDataStore) = 2
    /\ Wire(localDataStore[1]) # Wire(localDataStore[2])
    /\ resp.body = <<Wire(localDataStore[1])>>

\* The three fields of the body are JSON numbers.
AllNumeric(body) ==
    \A f \in {"waterLevel", "temperatureCelsius", "temperatureFahrenheit"} :
        body[f].t = "number"

\* C13: every create whose three fields are present and numeric, zero and
\* negative values included, is answered 200 with a reading whose waterLevel,
\* temperatureCelsius and temperatureFahrenheit equal the input values,
\* whether it was stored in the durable store or in the local buffer.
C13_NumericValuesPassThrough ==
    (resp.op = "create" /\ AllNumeric(resp.input[1])) =>
        /\ resp.status = 200
        /\ resp.source \in {"db", "local"}
        /\ Len(resp.body) = 1
        /\ Triple(resp.body[1]) = Triple(resp.input[1])

\* A create of the values 0, -1 and 2 answered from the durable store, while
\* the local buffer holds a reading of the same values from an earlier create.
C13_Witness ==
    /\ resp.op = "create" /\ resp.source = "db"
    /\ Triple(resp.input[1]) = <<JNum(0), JNum(0 - 1), JNum(2)>>
    /\ Triple(resp.body[1]) = <<JNum(0), JNum(0 - 1), JNum(2)>>
    /\ Len(localDataStore) > 0
    /\ Triple(localDataStore[1]) = Triple(resp.input[1])

\* C14: ids are unique within the local buffer: in every reachable state no
\* two readings held in the local buffer have the same id, also when two
\* creates are stamped at the same clock value.
C14_LocalIdsUnique ==
    \A i, j \in 1..Len(localDataStore) :
        i # j => localDataStore[i].id # localDataStore[j].id

\* C15: a stored reading never changes: a step that answers a list or a latest,
\* or answers nothing, leaves the local buffer and the durable store as they
\* were; a create leaves every document of the durable store in place and
\* either leaves the local buffer as it was or prepends its entry, the entries
\* before moving one place down unaltered and only the last one of a full
\* buffer leaving.
C15_StoredReadingsNeverChange ==
    [][/\ resp'.op # "create" =>
              (localDataStore' = localDataStore /\ dbDocs' = dbDocs)
       /\ Len(dbDocs') >= Len(dbDocs)
       /\ SubSeq(dbDocs', 1, Len(dbDocs)) = dbDocs
       /\ \/ localDataStore' = localDataStore
          \/ /\ Len(localDataStore') = Min(Len(localDataStore) + 1, MaxLocal)
             /\ \A i \in 2..Len(localDataStore') :
                    localDataStore'[i] = localDataStore[i - 1]]_vars

\* A latest answered after the create that evicted the oldest entry of a full
\* buffer: the other hundred entries are as they were inserted.
C15_Witness ==
    /\ resp.op = "latest" /\ resp.status = 200
    /\ Len(inserted) = MaxLocal + 1
    /\ Len(localDataStore) = MaxLocal
    /\ \A i \in 1..MaxLocal : localDataStore[i] = inserted[MaxLocal + 2 - i]

\* The instant an entry was stamped at, read back from its id.
StampOf(entry) == DigitsValue(entry.id, 0)

\* C16: in every reachable state, also when concurrent creates interleave at
\* the durable-store call and the liveness changes between them, the local
\* buffer is ordered newest-first by creation stamp: no entry's stamp is older
\* than the stamp of the entry after it.
C16_BufferNewestFirstByStamp ==
    \A i \in 1..(Len(localDataStore) - 1) :
        StampOf(localDataStore[i]) >= StampOf(localDataStore[i + 1])

\* C17: under any interleaving of concurrent requests no local insert is lost
\* and no read sees a torn buffer: once m creates have been put into the local
\* buffer it holds exactly the last min(m, 100) of them, and every list and
\* latest answered from the local buffer shows at most 100 entries, the first
\* entries of that buffer.
C17_NoLostInsertNoTornRead ==
    /\ localDataStore =
          SubSeq(Reverse(inserted), 1, Min(Len(inserted), MaxLocal))
    /\ (resp.op = "list" /\ resp.source = "local") =>
          /\ Len(resp.body) <= MaxLocal
          /\ Len(resp.body) <= Len(localDataStore)
          /\ resp.body = WireAll(SubSeq(localDataStore, 1, Len(resp.body)))
    /\ (resp.op = "latest" /\ resp.source = "local" /\ resp.status = 200) =>
          resp.body = <<Wire(localDataStore[1])>>

\* list(101) answered with 100 readings after two creates that overlapped at
\* the durable call (the one stamped first was put into the buffer last) have
\* brought the buffer over its cap.
C17_Witness ==
    /\ resp.op = "list" /\ resp.source = "local"
    /\ resp.input = <<JStr(NumberToString(MaxLocal + 1))>>
    /\ Len(inserted) = MaxLocal + 1
    /\ Len(resp.body) = MaxLocal
    /\ StampOf(localDataStore[1]) < StampOf(localDataStore[2])

\* C18: there is no migration between the backends: no reading that was put
\* into the local buffer is in the durable store afterwards, also after the
\* store has become live again, and the durable store changes only by the
\* document of a create whose liveness check passed and whose durable create
\* succeeded.
C18_NoMigration ==
    [][/\ \A i \in 1..Len(inserted') : \A j \in 1..Len(dbDocs') :
              inserted'[i].req # dbDocs'[j].req
       /\ dbDocs' # dbDocs =>
              /\ resp'.op = "create" /\ resp'.live /\ resp'.dbResult = "ok"
              /\ Len(dbDocs') = Len(dbDocs) + 1
              /\ SubSeq(dbDocs', 1, Len(dbDocs)) = dbDocs
              /\ dbDocs'[Len(dbDocs')].req = resp'.subject[1].req]_vars

\* A create stored durably after the store has become live, while the reading
\* of the create before it, made during the outage, is in the local buffer
\* only.
C18_Witness ==
    /\ resp.op = "create" /\ resp.source = "db" /\ resp.after = "local"
    /\ Len(localDataStore) = 1 /\ Len(dbDocs) = 1
    /\ localDataStore[1].req # dbDocs[1].req
    /\ readyState = Connected

\* C19: a list is answered from the local buffer only when the durable store
\* is not live at the check or the durable query fails; when the store is live
\* and the query succeeds the response is the durable result alone, also when
\* that result is empty and the local buffer holds readings, whereas a latest
\* with an empty durable result is answered from the local buffer.
C19_ListFallsThroughOnlyOnFailure ==
    /\ resp.op = "list" =>
          /\ resp.source = "local" <=> (~resp.live \/ resp.dbResult = "fail")
          /\ (resp.live /\ resp.dbResult = "ok") =>
                /\ resp.source = "db"
                /\ resp.body = WireAll(DocsToReadings(resp.subject))
                /\ \A i \in 1..Len(resp.subject) :
                       \E j \in 1..Len(dbDocs) : dbDocs[j] = resp.subject[i]
                /\ dbDocs = <<>> => resp.body = <<>>
    /\ (resp.op = "latest" /\ resp.live /\ resp.dbResult = "empty"
                            /\ Len(localDataStore) > 0) =>
          resp.body = <<Wire(localDataStore[1])>>

\* A list answered live with the empty durable result while the local buffer
\* holds a reading.
C19_Witness ==
    /\ resp.op = "list" /\ resp.live /\ resp.dbResult = "ok"
    /\ resp.source = "db" /\ resp.body = <<>>
    /\ dbDocs = <<>> /\ Len(localDataStore) > 0

\* The operation whose handler waits at pc.
OpAwaited(pc) ==
    CASE pc = "awaitCreate" -> "create"
      [] pc = "awaitFind" -> "list"
      [] pc = "awaitFindOne" -> "latest"
      [] OTHER -> "none"

\* C20: every create, list and latest request receives exactly one response in
\* the end, provided every durable call it makes settles: a request that
\* awaits a durable call is answered eventually; the step that ends a request
\* sends the one response of its operation; a step sends a response only when
\* it ends one request or handles a whole request without awaiting, and a
\* step that starts to await sends none.
C20_ExactlyOneResponse ==
    /\ \A r \in Slots : (reqs[r].pc # "idle") ~> (reqs[r].pc = "idle")
    /\ [][LET ended == {r \in Slots : reqs[r].pc # "idle" /\ reqs'[r].pc = "idle"}
              started == {r \in Slots : reqs[r].pc = "idle" /\ reqs'[r].pc # "idle"}
          IN  /\ Cardinality(ended) <= 1
              /\ Cardinality(started) <= 1
              /\ \A r \in ended : resp'.op = OpAwaited(reqs[r].pc)
              /\ started # {} => (resp'.op = "none" /\ ended = {})
              /\ (resp'.op # "none" /\ ended = {}) => reqs' = reqs
              /\ \A r \in Slots \ (ended \cup started) : reqs'[r] = reqs[r]]_vars

\* A latest answered after its durable query failed because the connection
\* was lost while it waited; no request is left waiting.
C20_Witness ==
    /\ resp.op = "latest" /\ resp.live /\ resp.dbResult = "fail"
    /\ readyState = Disconnected
    /\ \A r \in Slots : reqs[r].pc = "idle"

====
